---- MODULE Spec2Model ----
(***************************************************************************)
(* Model of the UCloud docker-machine driver (src/ucloud.go).              *)
(*                                                                         *)
(* One Driver value, used by one caller at a time, talks to one remote     *)
(* UCloud service.  Create is a sequence of blocking remote calls, so it   *)
(* is modelled as a process whose position is pc; the remote service may   *)
(* change between two of its calls.  Every other operation of the driver   *)
(* is a single step.  An error value is the sequence of the pieces that    *)
(* fmt.Errorf concatenates; the nil error is the empty sequence.           *)
(***************************************************************************)
EXTENDS Integers, Sequences, FiniteSets, TLC

(* ---------------------------------------------------------------------- *)
(* Constants of the program                                                *)
(* ---------------------------------------------------------------------- *)

\* src/ucloud.go:40
defaultRegion == "cn-north-03"

\* src/ucloud.go:41 (declared, but not handed to the poll of Create)
defaultRetries == 10

\* mcnutils.WaitFor(f) is WaitForSpecific(f, 60, 3*time.Second): the call at
\* src/ucloud.go:188 passes no attempt count, so the library's own applies.
WaitForMaxAttempts == 60

\* BaseDriver.MachineName, src/ucloud.go:48
MachineName == "m1"

\* libmachine state.State values used by GetState.  state.None is the zero
\* value; it is what the driver reports for an unrecognised provider status.
StateNone == "None"
StateRunning == "Running"
StateStopped == "Stopped"
StateStopping == "Stopping"
StateStarting == "Starting"
StateError == "Error"

Nil == << >>

(* ---------------------------------------------------------------------- *)
(* Input domains                                                           *)
(* ---------------------------------------------------------------------- *)

\* Values of a credential or password flag: absent or given.
PublicKeys == {"", "pub"}
PrivateKeys == {"", "priv"}
Passwords == {"", "secret"}

\* Region flag values: the default, and one the provider does not know.
RegionFlags == {defaultRegion, "nowhere"}

\* Instance ids the provider may hand out.
InstanceIds == {"uhost-1", "uhost-2"}

\* A reply of the provider without host details.
NoDetails == "<nil>"

\* Provider status strings: the seven of the table, the empty string, one the
\* table does not list, and one that differs from a listed one in case only.
RawStates ==
    {"Initializing", "Starting", "Rebooting", "Running", "Stopped",
     "Stopping", "Install Fail", "", "Deleted", "running"}

\* Failure modes of the remote service; "" is a healthy service.
Faults == {"", "network error"}

\* The remote operations of the driver.
RemoteOps ==
    {"createKeyPair", "createUHost", "getHostDescription", "createUNet",
     "uploadKeyPair", "startUHost", "stopUHost", "terminateUHost",
     "rebootUHost", "killUHost"}

NoCalls == [o \in RemoteOps |-> 0]

\* Consecutive GetState calls that are told apart.
MaxStreak == 2

VARIABLES
    d,          \* the Driver's fields
    remote,     \* the remote service: its failure mode and the host's status
    pc,         \* position of the running Create, "idle" when none runs
    attempts,   \* loop counter of the poll inside Create
    op,         \* the operation invoked last
    ret,        \* what the last completed operation returned
    calls,      \* remote calls made by the last invoked operation, per name
    okSteps,    \* remote calls of the running Create that have succeeded
    sawRunning, \* a poll attempt of this Create observed state.Running
    onlyStarting, \* every poll attempt so far got provider status Starting
    id0,        \* d.UhostID when the last operation was invoked
    newId,      \* the id the provider returned to this Create
    streak,     \* GetState calls in a row with nothing else in between
    hosts,      \* the instances that exist at the provider
    lastPoll,   \* what GetState answered to the last turn the poll may take
    cancelled   \* the caller has asked the running Create to stop

vars ==
    <<d, remote, pc, attempts, op, ret, calls, okSteps, sawRunning,
      onlyStarting, id0, newId, streak, hosts, lastPoll, cancelled>>

(* ---------------------------------------------------------------------- *)
(* The remote service                                                      *)
(* ---------------------------------------------------------------------- *)

\* The error a remote call returns under the service's failure mode.
RemoteErr(r) == IF r.fault = "" THEN Nil ELSE <<r.fault>>

\* getHostDescription: one describe call, answering an error, no details,
\* or the host's provider status.
getHostDescription(r) ==
    IF r.fault # ""
    THEN [err |-> <<r.fault>>, isNil |-> TRUE, state |-> ""]
    ELSE IF r.state = NoDetails
         THEN [err |-> Nil, isNil |-> TRUE, state |-> ""]
         ELSE [err |-> Nil, isNil |-> FALSE, state |-> r.state]

\* validateUCloudRegion: the region when the provider knows it, else an error.
validateUCloudRegion(region) ==
    IF region = defaultRegion
    THEN [region |-> region, err |-> Nil]
    ELSE [region |-> "", err |-> <<"Invalid region specified">>]

(* ---------------------------------------------------------------------- *)
(* Driver.GetState                                                         *)
(* ---------------------------------------------------------------------- *)

\* MapStatus without the case for a failed installation.
MapStatusNoInstallFail(s) ==
    CASE s \in {"Initializing", "Starting", "Rebooting"} -> StateStarting
      [] s = "Running" -> StateRunning
      [] s = "Stopped" -> StateStopped
      [] s = "Stopping" -> StateStopping
      [] OTHER -> StateNone

\* The switch of GetState over the provider's status string.
MapStatus(s) ==
    CASE s \in {"Initializing", "Starting", "Rebooting"} -> StateStarting
      [] s = "Running" -> StateRunning
      [] s = "Stopped" -> StateStopped
      [] s = "Stopping" -> StateStopping
      [] s = "Install Fail" -> StateError
      [] OTHER -> StateNone

\* The precondition of GetState without the test of the region.
GetStateMissingIdOnly(dd) == dd.UhostID = ""

\* The local precondition of GetState.
GetStateMissing(dd) == dd.UhostID = "" \/ dd.Region = ""

\* GetState: the state and error it returns, and the describe calls it makes.
GetState(dd, r) ==
    IF GetStateMissing(dd)
    THEN [st |-> StateNone, err |-> <<"region or uhost is empty">>,
          described |-> 0]
    ELSE LET reply == getHostDescription(r) IN
         IF reply.err # Nil
         THEN [st |-> StateNone,
               err |-> <<"get UHost details failed:">> \o reply.err,
               described |-> 1]
         ELSE [st |-> IF ~reply.isNil /\ reply.state # ""
                      THEN MapStatus(reply.state)
                      ELSE StateNone,
               err |-> Nil, described |-> 1]

\* drivers.MachineInState(d, desired): an error of GetState is logged and
\* counts as "not in the state".
MachineInState(dd, r, desired) == GetState(dd, r).st = desired

(* ---------------------------------------------------------------------- *)
(* Initial states                                                          *)
(* ---------------------------------------------------------------------- *)

\* NewDriver
NewDriver ==
    [PublicKey |-> "", PrivateKey |-> "", Region |-> defaultRegion,
     Password |-> "", UhostID |-> "", PrivateIPAddress |-> "",
     IPAddress |-> ""]

Remotes == [fault : Faults, state : RawStates \cup {NoDetails}]

NoRet == [st |-> StateNone, err |-> Nil]

InitRest ==
    /\ remote \in Remotes
    /\ pc = "idle"
    /\ attempts = 0
    /\ op = "none"
    /\ ret = NoRet
    /\ calls = NoCalls
    /\ okSteps = {}
    /\ sawRunning = FALSE
    /\ onlyStarting = TRUE
    /\ id0 = d.UhostID
    /\ newId = ""
    /\ streak = 0
    /\ lastPoll = NoRet
    /\ cancelled = FALSE

Init ==
    /\ d = NewDriver
    /\ hosts = {}
    /\ InitRest

\* A Driver the host tool restored from its store instead of building it
\* with NewDriver: the fields are exported, and GetState and Stop test for
\* the empty region and the empty id such a value may carry.
LoadedDrivers ==
    {[NewDriver EXCEPT !.Region = r, !.UhostID = u] :
        r \in {"", defaultRegion}, u \in {""} \cup InstanceIds}

InitLoaded ==
    /\ d \in LoadedDrivers
    /\ hosts \in SUBSET ({d.UhostID} \cap InstanceIds)
    /\ InitRest

\* An operation is invoked: the bookkeeping common to all of them.
Invoke(name) ==
    /\ pc = "idle"
    /\ op' = name
    /\ id0' = d.UhostID
    /\ okSteps' = {}
    /\ sawRunning' = FALSE
    /\ onlyStarting' = TRUE
    /\ newId' = ""
    /\ attempts' = 0
    /\ lastPoll' = NoRet
    /\ cancelled' = FALSE

Called(c, name) == [c EXCEPT ![name] = @ + 1]

(* ---------------------------------------------------------------------- *)
(* Driver.SetConfigFromFlags                                               *)
(* ---------------------------------------------------------------------- *)

Flags ==
    [region : RegionFlags, publicKey : PublicKeys, privateKey : PrivateKeys,
     password : Passwords]

\* The driver and the error after SetConfigFromFlags(flags): each field is
\* assigned before it is tested, and a failed test returns at once.
SetConfig(dd, flags) ==
    LET v == validateUCloudRegion(flags.region)
        d1 == [dd EXCEPT !.Region = v.region]
        d2 == [d1 EXCEPT !.PublicKey = flags.publicKey]
        d3 == [d2 EXCEPT !.PrivateKey = flags.privateKey]
        d4 == [d3 EXCEPT !.Password = flags.password]
    IN  IF v.err # Nil THEN [d |-> dd, err |-> v.err]
        ELSE IF d2.PublicKey = ""
        THEN [d |-> d2,
              err |-> <<"ucloud driver requires the --ucloud-public-key option">>]
        ELSE IF d3.PrivateKey = ""
        THEN [d |-> d3,
              err |-> <<"ucloud driver requires the --ucloud-private-key option">>]
        ELSE [d |-> d4, err |-> Nil]

SetConfigFromFlags ==
    \E flags \in Flags :
        /\ Invoke("SetConfigFromFlags")
        /\ d' = SetConfig(d, flags).d
        /\ ret' = [st |-> StateNone, err |-> SetConfig(d, flags).err]
        /\ calls' = NoCalls
        /\ streak' = 0
        /\ UNCHANGED <<remote, pc, hosts>>

(* ---------------------------------------------------------------------- *)
(* Driver.Create                                                           *)
(* ---------------------------------------------------------------------- *)

\* An operation returns err to its caller.
Return(err) ==
    /\ pc' = "idle"
    /\ ret' = [st |-> StateNone, err |-> err]

\* Create without its password test.
PasswordNeverMissing(dd) == FALSE

\* The test that opens Create.
PasswordMissing(dd) == dd.Password = ""

\* What createUHost leaves in the driver when the provider returns id.
createUHost(dd, id) == [dd EXCEPT !.UhostID = id]

\* What createUNet leaves in the driver: the private address always, and as
\* the machine's address the public one ip when there is one.
createUNet(dd, ip) ==
    [dd EXCEPT !.PrivateIPAddress = "10.0.0.1", !.IPAddress = ip]

\* The addresses createUNet may record as the machine's address.
Addresses == {"10.0.0.1", "1.2.3.4"}

\* Create is invoked: the password test.
CreateBegin ==
    /\ Invoke("Create")
    /\ calls' = NoCalls
    /\ streak' = 0
    /\ IF PasswordMissing(d)
       THEN Return(<<"ucloud driver requires --ucloud-user-password options.">>)
       ELSE pc' = "keypair" /\ ret' = NoRet
    /\ UNCHANGED <<d, remote, hosts>>

\* Create calling createKeyPair again after a failure instead of returning.
CreateKeyPairRetries ==
    /\ pc = "keypair"
    /\ calls' = Called(calls, "createKeyPair")
    /\ IF RemoteErr(remote) # Nil
       THEN /\ pc' = "keypair"
            /\ UNCHANGED okSteps
       ELSE /\ pc' = "uhost"
            /\ okSteps' = okSteps \cup {"createKeyPair"}
    /\ UNCHANGED <<d, remote, attempts, op, ret, sawRunning, onlyStarting, id0,
                   newId, streak, hosts, lastPoll,
                   cancelled>>

\* Create calls createKeyPair.
CreateKeyPair ==
    /\ pc = "keypair"
    /\ calls' = Called(calls, "createKeyPair")
    /\ IF RemoteErr(remote) # Nil
       THEN /\ Return(<<"unable to create key pair: ">> \o RemoteErr(remote))
            /\ UNCHANGED okSteps
       ELSE /\ pc' = "uhost"
            /\ okSteps' = okSteps \cup {"createKeyPair"}
            /\ UNCHANGED ret
    /\ UNCHANGED <<d, remote, attempts, op, sawRunning, onlyStarting, id0,
                   newId, streak, hosts, lastPoll,
                   cancelled>>

\* The error of the provider's create call: the service's failure, or its
\* refusal when it has no further instance to hand out.
createUHostErr(r, h) ==
    IF r.fault # "" THEN <<r.fault>>
    ELSE IF InstanceIds \subseteq h THEN <<"quota exceeded">>
    ELSE Nil

\* Create calls createUHost.
CreateUHost ==
    /\ pc = "uhost"
    /\ calls' = Called(calls, "createUHost")
    /\ IF createUHostErr(remote, hosts) # Nil
       THEN /\ Return(<<"create UHost failed:">> \o createUHostErr(remote, hosts))
            /\ UNCHANGED <<d, okSteps, newId, hosts>>
       ELSE /\ \E id \in InstanceIds \ hosts :
                   /\ d' = createUHost(d, id)
                   /\ newId' = id
                   /\ hosts' = hosts \cup {id}
            /\ pc' = "wait"
            /\ okSteps' = okSteps \cup {"createUHost"}
            /\ UNCHANGED ret
    /\ UNCHANGED <<remote, attempts, op, sawRunning, onlyStarting, id0, streak,
                   lastPoll,
                   cancelled>>

\* The poll of Create going on to uploadKeyPair, past createUNet.
CreateWaitSkipsUNet ==
    /\ pc = "wait"
    /\ attempts < WaitForMaxAttempts
    /\ calls' = [calls EXCEPT !["getHostDescription"] =
                     @ + GetState(d, remote).described]
    /\ onlyStarting' =
          (/\ onlyStarting /\ d.UhostID # "" /\ d.Region # ""
           /\ remote.fault = "" /\ remote.state = "Starting")
    /\ sawRunning' =
          (sawRunning \/ (/\ d.UhostID # "" /\ d.Region # ""
                           /\ remote.fault = "" /\ remote.state = "Running"))
    /\ IF MachineInState(d, remote, StateRunning)
       THEN /\ pc' = "upload"
            /\ UNCHANGED attempts
       ELSE /\ pc' = "wait"
            /\ attempts' = attempts + 1
    /\ lastPoll' = IF attempts + 1 = WaitForMaxAttempts
                   THEN [st |-> GetState(d, remote).st,
                         err |-> GetState(d, remote).err]
                   ELSE NoRet
    /\ UNCHANGED <<d, remote, op, ret, okSteps, id0, newId, streak, hosts,
                   cancelled>>

\* The loop of the poll without the count of its turns.
CreateWaitNeverCounts ==
    /\ pc = "wait"
    /\ attempts < WaitForMaxAttempts
    /\ calls' = [calls EXCEPT !["getHostDescription"] =
                     IF @ < WaitForMaxAttempts
                     THEN @ + GetState(d, remote).described
                     ELSE @]
    /\ onlyStarting' =
          (/\ onlyStarting /\ d.UhostID # "" /\ d.Region # ""
           /\ remote.fault = "" /\ remote.state = "Starting")
    /\ sawRunning' =
          (sawRunning \/ (/\ d.UhostID # "" /\ d.Region # ""
                           /\ remote.fault = "" /\ remote.state = "Running"))
    /\ IF MachineInState(d, remote, StateRunning)
       THEN pc' = "unet"
       ELSE pc' = "wait"
    /\ lastPoll' = IF attempts + 1 = WaitForMaxAttempts
                   THEN [st |-> GetState(d, remote).st,
                         err |-> GetState(d, remote).err]
                   ELSE NoRet
    /\ UNCHANGED <<d, remote, attempts, op, ret, okSteps, id0, newId, streak,
                   hosts,
                   cancelled>>

\* One turn of the loop of mcnutils.WaitFor: evaluate the predicate, leave
\* the loop when it holds, else sleep and count.
CreateWait ==
    /\ pc = "wait"
    /\ attempts < WaitForMaxAttempts
    /\ calls' = [calls EXCEPT !["getHostDescription"] =
                     @ + GetState(d, remote).described]
    /\ onlyStarting' =
          (/\ onlyStarting /\ d.UhostID # "" /\ d.Region # ""
           /\ remote.fault = "" /\ remote.state = "Starting")
    /\ sawRunning' =
          (sawRunning \/ (/\ d.UhostID # "" /\ d.Region # ""
                           /\ remote.fault = "" /\ remote.state = "Running"))
    /\ IF MachineInState(d, remote, StateRunning)
       THEN /\ pc' = "unet"
            /\ UNCHANGED attempts
       ELSE /\ pc' = "wait"
            /\ attempts' = attempts + 1
    /\ lastPoll' = IF attempts + 1 = WaitForMaxAttempts
                   THEN [st |-> GetState(d, remote).st,
                         err |-> GetState(d, remote).err]
                   ELSE NoRet
    /\ UNCHANGED <<d, remote, op, ret, okSteps, id0, newId, streak, hosts,
                   cancelled>>

\* Create ignoring the error of the exhausted poll and going on.
CreateWaitTimeoutIgnored ==
    /\ pc = "wait"
    /\ attempts >= WaitForMaxAttempts
    /\ pc' = "unet"
    /\ UNCHANGED <<d, remote, attempts, op, ret, calls, okSteps, sawRunning,
                   onlyStarting, id0, newId, streak, hosts, lastPoll,
                   cancelled>>

\* Create destroying the instance it created when the poll is exhausted.
CreateWaitTimeoutRollsBack ==
    /\ pc = "wait"
    /\ attempts >= WaitForMaxAttempts
    /\ Return(<<"wait for machine running failed: ",
                "Maximum number of retries (", ToString(WaitForMaxAttempts),
                ") exceeded">>)
    /\ calls' = Called(calls, "terminateUHost")
    /\ hosts' = IF RemoteErr(remote) # Nil THEN hosts ELSE hosts \ {d.UhostID}
    /\ d' = [d EXCEPT !.UhostID = ""]
    /\ UNCHANGED <<remote, attempts, op, okSteps, sawRunning, onlyStarting,
                   id0, newId, streak, lastPoll,
                   cancelled>>

\* The loop of mcnutils.WaitFor ends without the predicate having held.
CreateWaitTimeout ==
    /\ pc = "wait"
    /\ attempts >= WaitForMaxAttempts
    /\ Return(<<"wait for machine running failed: ",
                "Maximum number of retries (", ToString(WaitForMaxAttempts),
                ") exceeded">>)
    /\ UNCHANGED <<d, remote, attempts, op, calls, okSteps, sawRunning,
                   onlyStarting, id0, newId, streak, hosts, lastPoll,
                   cancelled>>

\* Create going on to uploadKeyPair although createUNet failed.
CreateUNetIgnoresError ==
    /\ pc = "unet"
    /\ calls' = Called(calls, "createUNet")
    /\ IF RemoteErr(remote) # Nil
       THEN UNCHANGED <<d, okSteps>>
       ELSE /\ \E ip \in Addresses : d' = createUNet(d, ip)
            /\ okSteps' = okSteps \cup {"createUNet"}
    /\ pc' = "upload"
    /\ UNCHANGED <<remote, attempts, op, ret, sawRunning, onlyStarting, id0,
                   newId, streak, hosts, lastPoll,
                   cancelled>>

\* Create calls createUNet.
CreateUNet ==
    /\ pc = "unet"
    /\ calls' = Called(calls, "createUNet")
    /\ IF RemoteErr(remote) # Nil
       THEN /\ Return(<<"create networks failed:">> \o RemoteErr(remote))
            /\ UNCHANGED <<d, okSteps>>
       ELSE /\ \E ip \in Addresses : d' = createUNet(d, ip)
            /\ pc' = "upload"
            /\ okSteps' = okSteps \cup {"createUNet"}
            /\ UNCHANGED ret
    /\ UNCHANGED <<remote, attempts, op, sawRunning, onlyStarting, id0,
                   newId, streak, hosts, lastPoll,
                   cancelled>>

\* Create calls uploadKeyPair and returns.
CreateUploadKeyPair ==
    /\ pc = "upload"
    /\ calls' = Called(calls, "uploadKeyPair")
    /\ IF RemoteErr(remote) # Nil
       THEN /\ Return(<<"upload keypair failed:">> \o RemoteErr(remote))
            /\ UNCHANGED okSteps
       ELSE /\ Return(Nil)
            /\ okSteps' = okSteps \cup {"uploadKeyPair"}
    /\ UNCHANGED <<d, remote, attempts, op, sawRunning, onlyStarting, id0,
                   newId, streak, hosts, lastPoll,
                   cancelled>>

(* ---------------------------------------------------------------------- *)
(* Driver.GetState, Start, Stop, Remove, Restart, Kill                     *)
(* ---------------------------------------------------------------------- *)

\* GetState keeping the address it has just been told in the driver.
GetStateCallSavesAddress ==
    /\ Invoke("GetState")
    /\ ret' = [st |-> GetState(d, remote).st, err |-> GetState(d, remote).err]
    /\ calls' = [NoCalls EXCEPT !["getHostDescription"] =
                     GetState(d, remote).described]
    /\ streak' = IF streak < MaxStreak THEN streak + 1 ELSE streak
    /\ d' = IF GetState(d, remote).err = Nil
            THEN [d EXCEPT !.IPAddress = "1.2.3.4"]
            ELSE d
    /\ UNCHANGED <<remote, pc, hosts>>

GetStateCall ==
    /\ Invoke("GetState")
    /\ ret' = [st |-> GetState(d, remote).st, err |-> GetState(d, remote).err]
    /\ calls' = [NoCalls EXCEPT !["getHostDescription"] =
                     GetState(d, remote).described]
    /\ streak' = IF streak < MaxStreak THEN streak + 1 ELSE streak
    /\ UNCHANGED <<d, remote, pc, hosts>>

\* The instances left at the provider by a call of the named operation on
\* the instance id that succeeds: terminateUHost destroys the instance.
RemoteEffect(call, h, id) ==
    IF call = "terminateUHost" THEN h \ {id} ELSE h

\* A lifecycle operation that makes its remote call a second time when the
\* first one fails.
LifecycleRetries(name, call, id, msg) ==
    /\ Invoke(name)
    /\ calls' = IF RemoteErr(remote) # Nil
                THEN Called(Called(NoCalls, call), call)
                ELSE Called(NoCalls, call)
    /\ ret' = [st |-> StateNone,
               err |-> IF RemoteErr(remote) # Nil THEN msg ELSE Nil]
    /\ hosts' = IF RemoteErr(remote) # Nil
                THEN hosts
                ELSE RemoteEffect(call, hosts, id)
    /\ streak' = 0
    /\ UNCHANGED <<d, remote, pc>>

\* A lifecycle operation that makes its one remote call on the instance id
\* unconditionally and answers msg when the call fails.
Lifecycle(name, call, id, msg) ==
    /\ Invoke(name)
    /\ calls' = Called(NoCalls, call)
    /\ ret' = [st |-> StateNone,
               err |-> IF RemoteErr(remote) # Nil THEN msg ELSE Nil]
    /\ hosts' = IF RemoteErr(remote) # Nil
                THEN hosts
                ELSE RemoteEffect(call, hosts, id)
    /\ streak' = 0
    /\ UNCHANGED <<d, remote, pc>>

Start ==
    Lifecycle("Start", "startUHost", d.UhostID,
              <<"Cannot start Machine:", MachineName, ", with UHost: ",
                d.UhostID, ".">>)

\* Stop without its test of the instance id.
StopNeverMissing(dd) == FALSE

\* The local precondition of Stop.
StopMissing(dd) == Len(dd.UhostID) = 0

Stop ==
    IF StopMissing(d)
    THEN /\ Invoke("Stop")
         /\ calls' = NoCalls
         /\ ret' = [st |-> StateNone,
                    err |-> <<"UHost is not exist for Machine:", MachineName>>]
         /\ streak' = 0
         /\ UNCHANGED <<d, remote, pc, hosts>>
    ELSE Lifecycle("Stop", "stopUHost", d.UhostID,
                   <<"Cannot start Machine:", MachineName, ", with UHost: ",
                     d.UhostID, ".">>)

\* Remove forgetting the instance id once the instance is terminated.
RemoveClearsId ==
    /\ Invoke("Remove")
    /\ calls' = Called(NoCalls, "terminateUHost")
    /\ ret' = [st |-> StateNone,
               err |-> IF RemoteErr(remote) # Nil
                       THEN <<"Unable to terminate the UHost instance:">>
                                \o RemoteErr(remote)
                       ELSE Nil]
    /\ hosts' = IF RemoteErr(remote) # Nil
                THEN hosts
                ELSE RemoteEffect("terminateUHost", hosts, d.UhostID)
    /\ d' = IF RemoteErr(remote) # Nil THEN d ELSE [d EXCEPT !.UhostID = ""]
    /\ streak' = 0
    /\ UNCHANGED <<remote, pc>>

Remove ==
    Lifecycle("Remove", "terminateUHost", d.UhostID,
              <<"Unable to terminate the UHost instance:">> \o RemoteErr(remote))

Restart ==
    Lifecycle("Restart", "rebootUHost", d.UhostID,
              <<"Unable to restart the UHost instance:">> \o RemoteErr(remote))

Kill ==
    Lifecycle("Kill", "killUHost", d.UhostID,
              <<"Unable to kill the UHost instance:">> \o RemoteErr(remote))

(* ---------------------------------------------------------------------- *)
(* The remote service changes on its own                                   *)
(* ---------------------------------------------------------------------- *)

RemoteChange ==
    /\ \E r \in Remotes : r # remote /\ remote' = r
    /\ streak' = 0
    /\ UNCHANGED <<d, pc, attempts, op, ret, calls, okSteps, sawRunning,
                   onlyStarting, id0, newId, hosts, lastPoll,
                   cancelled>>

Next ==
    \/ SetConfigFromFlags
    \/ CreateBegin
    \/ CreateKeyPair
    \/ CreateUHost
    \/ CreateWait
    \/ CreateWaitTimeout
    \/ CreateUNet
    \/ CreateUploadKeyPair
    \/ GetStateCall
    \/ Start
    \/ Stop
    \/ Remove
    \/ Restart
    \/ Kill
    \/ RemoteChange

Spec == Init /\ [][Next]_vars

\* The answers of the remote service that the poll of Create tells apart: a
\* host that is not running yet, one that runs, one that will not run, and
\* a failing service.
PollRemotes ==
    {[fault |-> "", state |-> "Starting"],
     [fault |-> "", state |-> "Running"],
     [fault |-> "", state |-> "Stopped"],
     [fault |-> "network error", state |-> "Starting"]}

InitPoll ==
    /\ Init
    /\ remote \in PollRemotes

\* The remote service changes among the answers the poll tells apart.
RemoteChangePoll ==
    /\ \E r \in PollRemotes : r # remote /\ remote' = r
    /\ streak' = 0
    /\ UNCHANGED <<d, pc, attempts, op, ret, calls, okSteps, sawRunning,
                   onlyStarting, id0, newId, hosts, lastPoll, cancelled>>

NextPoll ==
    \/ SetConfigFromFlags
    \/ CreateBegin
    \/ CreateKeyPair
    \/ CreateUHost
    \/ CreateWait
    \/ CreateWaitTimeout
    \/ CreateUNet
    \/ CreateUploadKeyPair
    \/ GetStateCall
    \/ Start
    \/ Stop
    \/ Remove
    \/ Restart
    \/ Kill
    \/ RemoteChangePoll

\* The caller asks the Create that is polling to stop.
Cancel ==
    /\ pc = "wait"
    /\ ~cancelled
    /\ cancelled' = TRUE
    /\ UNCHANGED <<d, remote, pc, attempts, op, ret, calls, okSteps,
                   sawRunning, onlyStarting, id0, newId, streak, hosts,
                   lastPoll>>

SpecCancel == InitPoll /\ [][NextPoll \/ Cancel]_vars

\* A step of the running Create.  Each of its remote calls is a blocking
\* call that returns, and the sleep of the poll ends, so a Create that has
\* not returned takes its next step.
CreateStep ==
    \/ CreateKeyPair
    \/ CreateUHost
    \/ CreateWait
    \/ CreateWaitTimeout
    \/ CreateUNet
    \/ CreateUploadKeyPair

SpecFair == InitPoll /\ [][NextPoll]_vars /\ WF_vars(CreateStep)

SpecLoaded == InitLoaded /\ [][Next]_vars

TypeOK ==
    /\ pc \in {"idle", "keypair", "uhost", "wait", "unet", "upload"}
    /\ attempts \in 0..WaitForMaxAttempts
    /\ remote \in Remotes
    /\ streak \in 0..MaxStreak
    /\ cancelled \in BOOLEAN

(* ---------------------------------------------------------------------- *)
(* Properties                                                              *)
(* ---------------------------------------------------------------------- *)

CreateReturned == op = "Create" /\ pc = "idle"

PasswordError == <<"ucloud driver requires --ucloud-user-password options.">>

TimeoutError ==
    <<"wait for machine running failed: ", "Maximum number of retries (",
      ToString(WaitForMaxAttempts), ") exceeded">>

\* C1: within one Create the remote operations go createKeyPair,
\* createUHost, the getHostDescription poll, createUNet, uploadKeyPair; each
\* is invoked only after every earlier one has succeeded, and createUNet and
\* uploadKeyPair only after a poll attempt has observed Running.
C1_CreateOrder ==
    op = "Create" =>
        /\ calls["createUHost"] > 0 => "createKeyPair" \in okSteps
        /\ calls["getHostDescription"] > 0 =>
               {"createKeyPair", "createUHost"} \subseteq okSteps
        /\ calls["createUNet"] > 0 =>
               /\ {"createKeyPair", "createUHost"} \subseteq okSteps
               /\ sawRunning
        /\ calls["uploadKeyPair"] > 0 =>
               /\ {"createKeyPair", "createUHost", "createUNet"}
                      \subseteq okSteps
               /\ sawRunning
        /\ \A o \in {"startUHost", "stopUHost", "terminateUHost",
                     "rebootUHost", "killUHost"} : calls[o] = 0

C1_Witness ==
    /\ CreateReturned
    /\ calls["uploadKeyPair"] = 1
    /\ calls["getHostDescription"] = 3

\* C2: Create with an empty password returns the password error, makes no
\* remote call and leaves the recorded instance id as it was.
C2_EmptyPassword ==
    (CreateReturned /\ d.Password = "") =>
        /\ ret.err = PasswordError
        /\ calls = NoCalls
        /\ d.UhostID = id0

C2_Witness ==
    /\ CreateReturned
    /\ d.Password = ""
    /\ d.UhostID # ""
    /\ ret.err = PasswordError

\* C3: Create with an empty public or private credential fails with a
\* configuration error before any remote call.
C3_CredentialsValidated ==
    (op = "Create" /\ (d.PublicKey = "" \/ d.PrivateKey = "")) =>
        /\ calls = NoCalls
        /\ pc = "idle"
        /\ ret.err # Nil

\* The status table of the provider, written out.
StatusTable(s) ==
    IF s = "Initializing" \/ s = "Starting" \/ s = "Rebooting"
    THEN "Starting"
    ELSE IF s = "Running" THEN "Running"
    ELSE IF s = "Stopped" THEN "Stopped"
    ELSE IF s = "Stopping" THEN "Stopping"
    ELSE IF s = "Install Fail" THEN "Error"
    ELSE "None"

\* C4: with region and instance id set and a describe call that succeeds,
\* GetState answers the status of the table for the provider's string, None
\* for every string the table does not list, and no error.
C4_StatusMapping ==
    (/\ op = "GetState"
     /\ streak > 0
     /\ d.UhostID # ""
     /\ d.Region # ""
     /\ remote.fault = "") =>
        /\ ret.err = Nil
        /\ ret.st = StatusTable(remote.state)

C4_Witness ==
    /\ op = "GetState"
    /\ streak > 0
    /\ d.UhostID # ""
    /\ remote.fault = ""
    /\ remote.state = "Install Fail"
    /\ ret.st = StateError

\* C5: when createKeyPair and createUHost succeed and every describe call
\* answers Starting, Create returns the timeout error after defaultRetries
\* evaluations of the status, without createUNet or uploadKeyPair.
C5_TimeoutAfterDefaultRetries ==
    (/\ CreateReturned
     /\ {"createKeyPair", "createUHost"} \subseteq okSteps
     /\ onlyStarting) =>
        /\ ret.err = TimeoutError
        /\ calls["getHostDescription"] = defaultRetries
        /\ calls["createUNet"] = 0
        /\ calls["uploadKeyPair"] = 0

\* C6: a Create whose password is set, whose remote calls all succeed and
\* whose poll sees Running returns no error; a Create that returns no error
\* leaves the id createUHost returned as the recorded id, and a private
\* address.
C6_CreateSucceeds ==
    /\ (/\ CreateReturned
        /\ d.Password # ""
        /\ okSteps = {"createKeyPair", "createUHost", "createUNet",
                      "uploadKeyPair"}
        /\ sawRunning) => ret.err = Nil
    /\ (CreateReturned /\ ret.err = Nil) =>
           /\ newId \in InstanceIds
           /\ d.UhostID = newId
           /\ d.PrivateIPAddress # ""

C6_Witness ==
    /\ CreateReturned
    /\ ret.err = Nil
    /\ calls["getHostDescription"] = 3
    /\ id0 # ""
    /\ d.UhostID # id0

\* C7: Stop on a driver without a recorded instance id returns the
\* missing-instance error and makes no remote call.
C7_StopWithoutInstance ==
    (op = "Stop" /\ id0 = "") =>
        /\ ret.err = <<"UHost is not exist for Machine:", MachineName>>
        /\ calls = NoCalls

C7_Witness ==
    /\ op = "Stop"
    /\ id0 = ""
    /\ ret.err # Nil
    /\ remote.fault = ""

\* C8: Start, Stop, Restart, Kill and Remove on a driver without a recorded
\* instance id fail before any remote call.
C8_LifecycleWithoutInstance ==
    (op \in {"Start", "Stop", "Restart", "Kill", "Remove"} /\ id0 = "") =>
        /\ ret.err # Nil
        /\ calls = NoCalls

\* C9: GetState with an empty region or an empty instance id returns the
\* missing-instance error without a describe call; with both set it makes
\* exactly one describe call.
C9_GetStatePrecondition ==
    op = "GetState" =>
        IF d.UhostID = "" \/ d.Region = ""
        THEN /\ ret.err = <<"region or uhost is empty">>
             /\ calls = NoCalls
        ELSE calls = [NoCalls EXCEPT !["getHostDescription"] = 1]

C9_Witness ==
    /\ op = "GetState"
    /\ d.Region = ""
    /\ d.UhostID # ""
    /\ ret.err = <<"region or uhost is empty">>
    /\ remote.fault = ""

StepCall(p) ==
    CASE p = "keypair" -> "createKeyPair"
      [] p = "uhost" -> "createUHost"
      [] p = "unet" -> "createUNet"
      [] p = "upload" -> "uploadKeyPair"

StepText(p) ==
    CASE p = "keypair" -> "unable to create key pair: "
      [] p = "uhost" -> "create UHost failed:"
      [] p = "unet" -> "create networks failed:"
      [] p = "upload" -> "upload keypair failed:"

LaterCalls(p) ==
    CASE p = "keypair" ->
             {"createUHost", "getHostDescription", "createUNet",
              "uploadKeyPair"}
      [] p = "uhost" -> {"getHostDescription", "createUNet", "uploadKeyPair"}
      [] p = "wait" -> {"createUNet", "uploadKeyPair"}
      [] p = "unet" -> {"uploadKeyPair"}
      [] p = "upload" -> {}

\* The error the remote call made at position p answers in this state.
StepCause(p) ==
    IF p = "uhost" THEN createUHostErr(remote, hosts) ELSE RemoteErr(remote)

\* A step of the running Create: the remote service does not change in it.
CreateStepAt(p) == pc = p /\ remote' = remote

\* C11: when a step of Create fails (its remote call answers an error, or
\* the poll is exhausted), Create returns in that step with the step's text
\* followed by the cause, and no call of a later step has been made.
C11_FailFast ==
    [][/\ \A p \in {"keypair", "uhost", "unet", "upload"} :
              (CreateStepAt(p) /\ StepCause(p) # Nil) =>
                  /\ pc' = "idle"
                  /\ ret'.err = <<StepText(p)>> \o StepCause(p)
                  /\ calls' = Called(calls, StepCall(p))
                  /\ \A o \in LaterCalls(p) : calls'[o] = 0
       /\ (CreateStepAt("wait") /\ attempts >= WaitForMaxAttempts) =>
              /\ pc' = "idle"
              /\ ret'.err = TimeoutError
              /\ calls' = calls
              /\ \A o \in LaterCalls("wait") : calls'[o] = 0]_vars

C11_Witness ==
    /\ CreateReturned
    /\ ret.err = <<"create networks failed:", "network error">>
    /\ calls["createUNet"] = 1
    /\ calls["uploadKeyPair"] = 0

\* C12: in one Create each of createKeyPair, createUHost, createUNet and
\* uploadKeyPair is called at most once; only getHostDescription is called
\* more often, once per turn of the poll and never beyond its bound.
C12_AtMostOnce ==
    op = "Create" =>
        /\ \A o \in {"createKeyPair", "createUHost", "createUNet",
                     "uploadKeyPair"} : calls[o] <= 1
        /\ calls["getHostDescription"] <= WaitForMaxAttempts
        /\ calls["getHostDescription"] <=
               attempts + (IF sawRunning THEN 1 ELSE 0)
        /\ pc \in {"keypair", "uhost"} => calls["getHostDescription"] = 0

C12_Witness ==
    /\ CreateReturned
    /\ ret.err = <<"upload keypair failed:", "network error">>
    /\ calls["getHostDescription"] = 4
    /\ calls["createKeyPair"] = 1
    /\ calls["createUHost"] = 1
    /\ calls["createUNet"] = 1
    /\ calls["uploadKeyPair"] = 1

LifecycleOps == {"Start", "Stop", "Restart", "Kill", "Remove"}

LifecycleCalls ==
    {"startUHost", "stopUHost", "terminateUHost", "rebootUHost", "killUHost"}

\* The remote call a lifecycle operation makes.
CallOf(o) ==
    CASE o = "Start" -> "startUHost"
      [] o = "Stop" -> "stopUHost"
      [] o = "Remove" -> "terminateUHost"
      [] o = "Restart" -> "rebootUHost"
      [] o = "Kill" -> "killUHost"

\* The step in which the caller invokes operation o and gets its result.
StepOf(o) == pc = "idle" /\ op' = o /\ remote' = remote

\* A Create that created its instance and failed later.
CreateFailedLate ==
    /\ CreateReturned
    /\ ret.err # Nil
    /\ "createUHost" \in okSteps

\* C13: Create makes no destroying remote call; from the success of
\* createUHost on, whatever Create does next, the instance exists at the
\* provider and its id is the recorded one; a Remove that follows a Create
\* which failed after createUHost terminates that instance.
C13_NoRollback ==
    [][/\ op' = "Create" => \A o \in LifecycleCalls : calls'[o] = 0
       /\ (op = "Create" /\ pc \in {"wait", "unet", "upload"}) =>
              /\ newId' = newId
              /\ d'.UhostID = newId
              /\ newId \in hosts'
       /\ (CreateFailedLate /\ StepOf("Remove") /\ remote.fault = "") =>
              /\ newId \in hosts
              /\ hosts' = hosts \ {newId}
              /\ calls'["terminateUHost"] = 1]_vars

C13_Witness ==
    /\ op = "Remove"
    /\ ret.err = Nil
    /\ id0 \in InstanceIds
    /\ id0 \notin hosts
    /\ d.PrivateIPAddress = ""

\* C14: the recorded instance id changes only from empty to the id that
\* createUHost returned, and from there only by a successful Remove, which
\* clears it.
C14_IdSetOnce ==
    [][/\ d'.UhostID # d.UhostID =>
              \/ d.UhostID = "" /\ pc = "uhost" /\ d'.UhostID = newId'
              \/ StepOf("Remove") /\ d'.UhostID = ""
       /\ (StepOf("Remove") /\ remote.fault = "") => d'.UhostID = ""]_vars

\* A piece of an error.
Carries(err, piece) == \E i \in DOMAIN err : err[i] = piece

\* A Create whose poll was exhausted.
CreateTimedOut ==
    /\ CreateReturned
    /\ "createUHost" \in okSteps
    /\ calls["createUNet"] = 0

\* C15: the error of a Create whose poll was exhausted carries the last
\* state the poll observed, and it is not the error of a Create whose last
\* describe call failed.
C15_TimeoutCarriesStatus ==
    CreateTimedOut =>
        IF lastPoll.err = Nil
        THEN Carries(ret.err, lastPoll.st)
        ELSE ret.err # TimeoutError

\* The verb an error text names, and the verbs that name an operation.
TextVerb(text) ==
    CASE text = "Cannot start Machine:" -> "start"
      [] text = "Unable to terminate the UHost instance:" -> "terminate"
      [] text = "Unable to restart the UHost instance:" -> "restart"
      [] text = "Unable to kill the UHost instance:" -> "kill"
      [] OTHER -> "none"

OpVerbs(o) ==
    CASE o = "Start" -> {"start"}
      [] o = "Stop" -> {"stop"}
      [] o = "Remove" -> {"remove", "terminate"}
      [] o = "Restart" -> {"restart", "reboot"}
      [] o = "Kill" -> {"kill"}

\* C16: the error of a lifecycle operation whose remote call failed names
\* the verb of the operation, the recorded instance id and the cause.
C16_LifecycleErrorShape ==
    [][\A o \in LifecycleOps :
          (StepOf(o) /\ calls'[CallOf(o)] > 0 /\ remote.fault # "") =>
              /\ ret'.err # Nil
              /\ TextVerb(ret'.err[1]) \in OpVerbs(o)
              /\ Carries(ret'.err, d.UhostID)
              /\ Carries(ret'.err, remote.fault)]_vars

\* C17: a lifecycle operation makes at most one remote call, its own, and
\* returns an error exactly when its local test fails or that call fails.
C17_LifecycleSingleCall ==
    [][\A o \in LifecycleOps :
          StepOf(o) =>
              /\ \A c \in RemoteOps :
                     calls'[c] <= (IF c = CallOf(o) THEN 1 ELSE 0)
              /\ pc' = "idle"
              /\ (o = "Stop" /\ d.UhostID = "") => calls' = NoCalls
              /\ (ret'.err # Nil) <=>
                     \/ o = "Stop" /\ d.UhostID = ""
                     \/ calls'[CallOf(o)] = 1 /\ remote.fault # ""]_vars

C17_Witness ==
    /\ op = "Restart"
    /\ ret.err = <<"Unable to restart the UHost instance:", "network error">>
    /\ calls["rebootUHost"] = 1

\* C18: every Create returns, whatever the remote service answers.
C18_CreateReturns == (pc # "idle") ~> (pc = "idle")

C18_Witness ==
    /\ CreateReturned
    /\ ret.err = TimeoutError
    /\ attempts = WaitForMaxAttempts
    /\ ~onlyStarting
    /\ lastPoll.err # Nil

\* C19: once the caller has asked a polling Create to stop, Create makes no
\* further describe call and returns an error that is not the one of an
\* exhausted poll.
C19_CancelStopsPoll ==
    [][(cancelled /\ CreateStepAt("wait")) =>
          /\ calls'["getHostDescription"] = calls["getHostDescription"]
          /\ pc' = "idle"
          /\ ret'.err # Nil
          /\ ret'.err # TimeoutError]_vars

\* C20: Start, Stop, Restart, Kill, Remove and GetState leave the driver's
\* fields as they are; after a Remove that succeeded the id is still
\* recorded, so a Stop or GetState that follows makes its remote call.
C20_LifecycleFrame ==
    [][/\ \A o \in LifecycleOps \cup {"GetState"} : StepOf(o) => d' = d
       /\ (/\ op = "Remove" /\ ret.err = Nil /\ id0 # "" /\ d.Region # "") =>
              /\ StepOf("Stop") => calls'["stopUHost"] = 1
              /\ StepOf("GetState") => calls'["getHostDescription"] = 1]_vars

C20_Witness ==
    /\ op = "Stop"
    /\ calls["stopUHost"] = 1
    /\ id0 \in InstanceIds
    /\ id0 \notin hosts
    /\ d.UhostID = id0

====
